---- MODULE Spec2Model ----
(***************************************************************************)
(* Model of the NexusFetcher API (src/main.py): the identifier list parser *)
(* _read_numbers_from_file_api, the single-record extractor                *)
(* _perform_single_scrape and the two batch endpoints scrape_by_numbers    *)
(* and scrape_by_file, which share the same session / loop / cleanup code. *)
(*                                                                         *)
(* Strings are sequences of one-character strings, so that strip(),        *)
(* startswith(), len(), isdigit() and slicing are computed.  The browser   *)
(* is the environment: every driver call either succeeds or raises one of  *)
(* the exception classes the code distinguishes.                           *)
(***************************************************************************)
EXTENDS Integers, Sequences, FiniteSets, TLC

VARIABLES
    pc,               \* position of the request handler
    endpoint,         \* "numbers" | "file" | "none"
    numbers,          \* numbers_to_scrape
    tempFile,         \* the uploaded file exists under TEMP_UPLOAD_DIR
    idx,              \* position of the for loop in numbers_to_scrape
    driver,           \* "None" | "Firefox"
    deadAt,           \* 0 while the browser session is alive, else the loop position where it died
    email, name, phone,   \* locals of _perform_single_scrape
    results, errors, processed_count,
    opened,           \* number of successful webdriver.Firefox(...) constructions
    quitCalls,        \* number of driver.quit() invocations
    fatals,           \* number of HTTPException(500) raised by the batch handlers
    response,         \* "pending" | "ScrapeResponse" | "http400" | "http500"
    last,             \* how the extractor left the most recent identifier
    seen,             \* what the lookup of each field of that identifier met
    fileLines,        \* parser: the raw lines of the file
    parsed,           \* parser: the list returned
    skipped,          \* parser: the lines noted as malformed in logs
    ppc               \* parser: "start" | "returned"

batchVars == <<pc, endpoint, numbers, tempFile, idx, driver, deadAt, email, name, phone,
               results, errors, processed_count, opened, quitCalls, fatals, response, last, seen>>
parserVars == <<fileLines, parsed, skipped, ppc>>
vars == <<batchVars, parserVars>>

----------------------------------------------------------------------------
(* Bounds *)
MaxNumbers == 2        \* longest identifier list of a request
MaxLines == 2          \* longest file given to the parser
MaxFill == 7           \* longest run of characters after the optional prefix

(* Program constants *)
PrefixLen == 3
MinPrefixedLen == 10

Prefix == <<"2", "3", "4">>
NA == <<"N", "/", "A">>

----------------------------------------------------------------------------
(* Strings *)
Digits == {"0", "1", "2", "3", "4", "5", "6", "7", "8", "9"}
Whitespace == {" ", "\t", "\n"}

RECURSIVE LStrip(_)
LStrip(s) == IF s # <<>> /\ Head(s) \in Whitespace THEN LStrip(Tail(s)) ELSE s

RECURSIVE RStrip(_)
RStrip(s) == IF s # <<>> /\ s[Len(s)] \in Whitespace THEN RStrip(SubSeq(s, 1, Len(s) - 1)) ELSE s

Strip(s) == RStrip(LStrip(s))

StartsWith(s, p) == Len(s) >= Len(p) /\ SubSeq(s, 1, Len(p)) = p

IsDigit(s) == s # <<>> /\ \A i \in 1..Len(s) : s[i] \in Digits

----------------------------------------------------------------------------
(* _read_numbers_from_file_api *)

\* variant: the prefix is stripped only from lines longer than MinPrefixedLen
LineNumbers_LongerThan(line) ==
    LET stripped_line == Strip(line) IN
    IF stripped_line = <<>> THEN <<>>
    ELSE IF StartsWith(stripped_line, Prefix) /\ Len(stripped_line) > MinPrefixedLen
         THEN <<SubSeq(stripped_line, PrefixLen + 1, Len(stripped_line))>>
    ELSE IF IsDigit(stripped_line) THEN <<stripped_line>>
    ELSE <<>>

\* the body of the for loop: what one raw line adds to numbers
LineNumbers(line) ==
    LET stripped_line == Strip(line) IN
    IF stripped_line = <<>> THEN <<>>
    ELSE IF StartsWith(stripped_line, Prefix) /\ Len(stripped_line) >= MinPrefixedLen
         THEN <<SubSeq(stripped_line, PrefixLen + 1, Len(stripped_line))>>
    ELSE IF IsDigit(stripped_line) THEN <<stripped_line>>
    ELSE <<>>

\* what one raw line adds to logs as "Skipping malformed line"
LineSkipped(line) ==
    LET stripped_line == Strip(line) IN
    IF /\ stripped_line # <<>>
       /\ ~(StartsWith(stripped_line, Prefix) /\ Len(stripped_line) >= MinPrefixedLen)
       /\ ~IsDigit(stripped_line)
    THEN <<stripped_line>> ELSE <<>>

RECURSIVE ReadNumbersFromFileApi(_)
ReadNumbersFromFileApi(lines) ==
    IF lines = <<>> THEN <<>>
    ELSE LineNumbers(Head(lines)) \o ReadNumbersFromFileApi(Tail(lines))

RECURSIVE SkippedLines(_)
SkippedLines(lines) ==
    IF lines = <<>> THEN <<>>
    ELSE LineSkipped(Head(lines)) \o SkippedLines(Tail(lines))

(* the raw lines the parser is given *)
Fill(c, n) == [i \in 1..n |-> c]
FillLens == {0, 1} \cup ((MinPrefixedLen - PrefixLen - 1)..MaxFill)
Bodies == UNION {{Fill("7", n), Fill("a", n)} \cup
                 (IF n >= 1 THEN {Fill("7", n - 1) \o <<"a">>} ELSE {}) : n \in FillLens}
Heads == {<<>>, Prefix, <<"2", "3">>}
RawLines == UNION {{h \o b, <<" ">> \o h \o b \o <<"\n">>} : h \in Heads, b \in Bodies}
Files == UNION {[1..n -> RawLines] : n \in 0..MaxLines}

ParserInit ==
    /\ fileLines \in Files
    /\ parsed = <<>>
    /\ skipped = <<>>
    /\ ppc = "start"

ReadFile ==
    /\ ppc = "start"
    /\ parsed' = ReadNumbersFromFileApi(fileLines)
    /\ skipped' = SkippedLines(fileLines)
    /\ ppc' = "returned"
    /\ UNCHANGED fileLines

----------------------------------------------------------------------------
(* The exception classes the handlers tell apart.  TimeoutException and    *)
(* NoSuchElementException are subclasses of WebDriverException; "Other" is *)
(* any Exception that is not a WebDriverException.                         *)
Exceptions == {"Timeout", "NoSuchElement", "WebDriver", "Other"}
WebDriverExceptions == {"Timeout", "NoSuchElement", "WebDriver"}

\* What the browser can answer to one driver call: <<outcome, the session dies>>.
\* A dead session answers every call with an exception.
DriverOutcomes ==
    IF deadAt # 0
    THEN {<<"WebDriver", FALSE>>, <<"Other", FALSE>>}
    ELSE {<<o, FALSE>> : o \in {"ok"} \cup Exceptions}
         \cup {<<"WebDriver", TRUE>>, <<"Other", TRUE>>}

\* except clauses of the outer try of _perform_single_scrape
OuterHandler(exc) == IF exc \in WebDriverExceptions THEN "reraise" ELSE "swallow"

\* variant: the inner try has no clause for TimeoutException
InnerHandler_TimeoutEscalates(exc) ==
    IF exc = "NoSuchElement" THEN "skip" ELSE OuterHandler(exc)

\* except clauses of the inner try (results link and details), then the outer ones
InnerHandler(exc) ==
    IF exc \in {"Timeout", "NoSuchElement"} THEN "skip" ELSE OuterHandler(exc)

\* variant: the field lookups share the inner try, a missing field skips the rest
FieldHandler_MissingSkipsRest(exc) == InnerHandler(exc)

\* except clause around one field lookup, then the enclosing ones
FieldHandler(exc) == IF exc = "NoSuchElement" THEN "default" ELSE InnerHandler(exc)

\* except clause around the close button, then the enclosing ones
CloseHandler(exc) ==
    IF exc \in {"Timeout", "NoSuchElement"} THEN "tolerate" ELSE InnerHandler(exc)

\* the text of a field's element as the page shows it
PageTexts(field) ==
    LET c == CASE field = "name" -> "n" [] field = "phone" -> "p" [] field = "email" -> "e"
    IN {<<c>>, <<" ", c, "\n">>}

ScrapeResult(number, e, n, p) ==
    [number_searched |-> number, email |-> e, name |-> n, phone |-> p]

Ids == {<<"7">>, <<"8">>}
UploadLines == {<<"7", "\n">>, <<"8">>, <<"a", "\n">>}
ListsOf(S) == UNION {[1..n -> S] : n \in 0..MaxNumbers}

NoScrape == [step |-> "none", exc |-> "none", exit |-> "none", errsBefore |-> 0]
Unread == [name |-> "unread", phone |-> "unread", email |-> "unread"]

BatchInit ==
    /\ pc = "idle"
    /\ endpoint = "none"
    /\ numbers = <<>>
    /\ tempFile = FALSE
    /\ idx = 0
    /\ driver = "None"
    /\ deadAt = 0
    /\ email = NA /\ name = NA /\ phone = NA
    /\ results = <<>>
    /\ errors = <<>>
    /\ processed_count = 0
    /\ opened = 0
    /\ quitCalls = 0
    /\ fatals = 0
    /\ response = "pending"
    /\ last = NoScrape
    /\ seen = Unread

\* the request handler starts on numbers_to_scrape (lines 174-182, 247-254)
StartBatch(ep, nums, saved) ==
    /\ endpoint' = ep
    /\ numbers' = nums
    /\ IF nums = <<>>
       THEN /\ response' = "http400"
            /\ tempFile' = FALSE
            /\ pc' = "done"
       ELSE /\ response' = response
            /\ tempFile' = saved
            /\ pc' = "open"
    /\ UNCHANGED <<idx, driver, deadAt, email, name, phone, results, errors,
                   processed_count, opened, quitCalls, fatals, last, seen>>

scrape_by_numbers ==
    /\ pc = "idle"
    /\ \E nums \in ListsOf(Ids) : StartBatch("numbers", nums, FALSE)

scrape_by_file ==
    /\ pc = "idle"
    /\ \E lines \in ListsOf(UploadLines) :
          StartBatch("file", ReadNumbersFromFileApi(lines), TRUE)

\* variant: a failed start is not raised, the batch goes on without a driver
OpenSession_FailureIgnored ==
    /\ pc = "open"
    /\ \E o \in {"ok", "WebDriver", "Other"} :
          IF o = "ok"
          THEN /\ driver' = "Firefox"
               /\ opened' = opened + 1
          ELSE UNCHANGED <<driver, opened>>
    /\ pc' = "wait"
    /\ UNCHANGED <<endpoint, numbers, tempFile, idx, deadAt, email, name, phone, fatals,
                   results, errors, processed_count, quitCalls, response, last, seen>>

\* GeckoDriverManager().install() and webdriver.Firefox(...)
OpenSession ==
    /\ pc = "open"
    /\ \E o \in {"ok", "WebDriver", "Other"} :
          IF o = "ok"
          THEN /\ driver' = "Firefox"
               /\ opened' = opened + 1
               /\ pc' = "wait"
               /\ fatals' = fatals
          ELSE /\ fatals' = fatals + 1
               /\ pc' = "finally"
               /\ UNCHANGED <<driver, opened>>
    /\ UNCHANGED <<endpoint, numbers, tempFile, idx, deadAt, email, name, phone,
                   results, errors, processed_count, quitCalls, response, last, seen>>

\* the statements between the creation of the driver and the loop; a failure
\* here (any Exception) is the fatal path taken with driver already set
CreateWait ==
    /\ pc = "wait"
    /\ \E o \in {"ok", "Other"} :
          IF o = "ok"
          THEN pc' = "loop" /\ fatals' = fatals
          ELSE pc' = "finally" /\ fatals' = fatals + 1
    /\ UNCHANGED <<endpoint, numbers, tempFile, idx, driver, deadAt, email, name, phone,
                   results, errors, processed_count, opened, quitCalls, response, last, seen>>

\* for number in numbers_to_scrape: the call of _perform_single_scrape
LoopNext ==
    /\ pc = "loop"
    /\ IF idx < Len(numbers)
       THEN /\ idx' = idx + 1
            /\ email' = NA /\ name' = NA /\ phone' = NA
            /\ last' = [NoScrape EXCEPT !.exit = "running", !.errsBefore = Len(errors)]
            /\ seen' = Unread
            /\ pc' = "get"
       ELSE /\ pc' = "finally"
            /\ UNCHANGED <<idx, email, name, phone, last, seen>>
    /\ UNCHANGED <<endpoint, numbers, tempFile, driver, deadAt, results, errors,
                   processed_count, opened, quitCalls, fatals, response>>

\* the extractor returned (e, n, p): the try branch of the loop body
BatchAppend(step, exc, e, n, p) ==
    /\ results' = Append(results, ScrapeResult(numbers[idx], e, n, p))
    /\ processed_count' = processed_count + 1
    /\ errors' = errors
    /\ last' = [last EXCEPT !.step = step, !.exc = exc, !.exit = "returned"]
    /\ email' = NA /\ name' = NA /\ phone' = NA
    /\ pc' = "loop"

\* variant: the except branch records the error but appends no result
BatchExcept_NoRecord(step, exc) ==
    /\ errors' = Append(errors, [number |-> numbers[idx], exc |-> exc])
    /\ results' = results
    /\ processed_count' = processed_count + 1
    /\ last' = [last EXCEPT !.step = step, !.exc = exc, !.exit = "raised"]
    /\ email' = NA /\ name' = NA /\ phone' = NA
    /\ pc' = "loop"

\* variant: the except branch appends the fields read so far
BatchExcept_KeepFields(step, exc) ==
    /\ errors' = Append(errors, [number |-> numbers[idx], exc |-> exc])
    /\ results' = Append(results, ScrapeResult(numbers[idx], email, name, phone))
    /\ processed_count' = processed_count + 1
    /\ last' = [last EXCEPT !.step = step, !.exc = exc, !.exit = "raised"]
    /\ email' = NA /\ name' = NA /\ phone' = NA
    /\ pc' = "loop"

\* the extractor raised: the except branch of the loop body
BatchExcept(step, exc) ==
    /\ errors' = Append(errors, [number |-> numbers[idx], exc |-> exc])
    /\ results' = Append(results, ScrapeResult(numbers[idx], NA, NA, NA))
    /\ processed_count' = processed_count + 1
    /\ last' = [last EXCEPT !.step = step, !.exc = exc, !.exit = "raised"]
    /\ email' = NA /\ name' = NA /\ phone' = NA
    /\ pc' = "loop"

\* an exception leaves _perform_single_scrape the way its handler decides
Leave(how, step, exc) ==
    IF how = "reraise"
    THEN BatchExcept(step, exc)
    ELSE BatchAppend(step, exc, email, name, phone)

\* the except clauses that apply to a statement of the given try block
Handle(try, exc) == IF try = "inner" THEN InnerHandler(exc) ELSE OuterHandler(exc)

\* one driver interaction of the extractor that reads no field
DriverCall(step, next, try) ==
    /\ pc = step
    /\ \E od \in DriverOutcomes :
          /\ deadAt' = IF od[2] THEN idx ELSE deadAt
          /\ IF od[1] = "ok"
             THEN /\ pc' = next
                  /\ UNCHANGED <<email, name, phone, results, errors, processed_count, last>>
             ELSE Leave(Handle(try, od[1]), step, od[1])
    /\ UNCHANGED <<endpoint, numbers, tempFile, idx, driver, opened, quitCalls,
                   fatals, response, seen>>

DriverGet == DriverCall("get", "radio", "outer")
ClickRadio == DriverCall("radio", "search_input", "outer")
EnterNumber == DriverCall("search_input", "search_button", "outer")
ClickSearch == DriverCall("search_button", "sms_link", "outer")
SmsResultLink == DriverCall("sms_link", "sms_click", "inner")
SmsResultClick == DriverCall("sms_click", "carrier_details", "inner")
CarrierDetails == DriverCall("carrier_details", "regBox", "inner")
RegBoxVisible == DriverCall("regBox", "scroll", "inner")
ScrollDown == DriverCall("scroll", "name", "inner")

\* what the lookup of a field met: the element, no such element, or another fault
Met(o) == IF o = "ok" THEN "found" ELSE IF o = "NoSuchElement" THEN "missing" ELSE "faulted"

\* find_element(...).text.strip() for one field
ReadField(field, next) ==
    /\ pc = field
    /\ \E od \in DriverOutcomes :
          /\ deadAt' = IF od[2] THEN idx ELSE deadAt
          /\ seen' = [seen EXCEPT ![field] = Met(od[1])]
          /\ IF od[1] = "ok"
             THEN /\ \E text \in PageTexts(field) :
                       /\ name' = IF field = "name" THEN Strip(text) ELSE name
                       /\ phone' = IF field = "phone" THEN Strip(text) ELSE phone
                       /\ email' = IF field = "email" THEN Strip(text) ELSE email
                  /\ pc' = next
                  /\ UNCHANGED <<results, errors, processed_count, last>>
             ELSE IF FieldHandler(od[1]) = "default"
             THEN /\ pc' = next
                  /\ UNCHANGED <<email, name, phone, results, errors, processed_count, last>>
             ELSE Leave(FieldHandler(od[1]), field, od[1])
    /\ UNCHANGED <<endpoint, numbers, tempFile, idx, driver, opened, quitCalls,
                   fatals, response>>

ReadName == ReadField("name", "phone")
ReadPhone == ReadField("phone", "email")
ReadEmail == ReadField("email", "close_modal")

\* the close button of the details panel, then return email, name, phone
CloseModal ==
    /\ pc = "close_modal"
    /\ \E od \in DriverOutcomes :
          /\ deadAt' = IF od[2] THEN idx ELSE deadAt
          /\ IF od[1] = "ok"
             THEN BatchAppend("close_modal", "none", email, name, phone)
             ELSE Leave(CloseHandler(od[1]), "close_modal", od[1])
    /\ UNCHANGED <<endpoint, numbers, tempFile, idx, driver, opened, quitCalls,
                   fatals, response, seen>>

\* variant: the finally block quits without testing driver
Finally_QuitUnconditional ==
    /\ pc = "finally"
    /\ \E q \in {"ok", "WebDriver", "Other"} :
          /\ quitCalls' = quitCalls + 1
          /\ response' = IF fatals > 0 \/ q = "Other" THEN "http500" ELSE "ScrapeResponse"
          /\ fatals' = IF q = "Other" /\ endpoint = "file" THEN fatals + 1 ELSE fatals
    /\ tempFile' = FALSE
    /\ pc' = "done"
    /\ UNCHANGED <<endpoint, numbers, idx, driver, deadAt, email, name, phone,
                   results, errors, processed_count, opened, last, seen>>

\* finally: if driver: driver.quit(); then the response or the pending HTTPException
Finally ==
    /\ pc = "finally"
    /\ IF driver # "None"
       THEN \E q \in {"ok", "WebDriver", "Other"} :
               /\ quitCalls' = quitCalls + 1
               /\ response' = IF fatals > 0 \/ q = "Other" THEN "http500" ELSE "ScrapeResponse"
               /\ fatals' = IF q = "Other" /\ endpoint = "file" THEN fatals + 1 ELSE fatals
       ELSE /\ response' = IF fatals > 0 THEN "http500" ELSE "ScrapeResponse"
            /\ UNCHANGED <<quitCalls, fatals>>
    /\ tempFile' = FALSE
    /\ pc' = "done"
    /\ UNCHANGED <<endpoint, numbers, idx, driver, deadAt, email, name, phone,
                   results, errors, processed_count, opened, last, seen>>

----------------------------------------------------------------------------
Init == BatchInit /\ fileLines = <<>> /\ parsed = <<>> /\ skipped = <<>> /\ ppc = "returned"

Next ==
    \/ (scrape_by_numbers /\ UNCHANGED parserVars)
    \/ (scrape_by_file /\ UNCHANGED parserVars)
    \/ (OpenSession /\ UNCHANGED parserVars)
    \/ (CreateWait /\ UNCHANGED parserVars)
    \/ (LoopNext /\ UNCHANGED parserVars)
    \/ (DriverGet /\ UNCHANGED parserVars)
    \/ (ClickRadio /\ UNCHANGED parserVars)
    \/ (EnterNumber /\ UNCHANGED parserVars)
    \/ (ClickSearch /\ UNCHANGED parserVars)
    \/ (SmsResultLink /\ UNCHANGED parserVars)
    \/ (SmsResultClick /\ UNCHANGED parserVars)
    \/ (CarrierDetails /\ UNCHANGED parserVars)
    \/ (RegBoxVisible /\ UNCHANGED parserVars)
    \/ (ScrollDown /\ UNCHANGED parserVars)
    \/ (ReadName /\ UNCHANGED parserVars)
    \/ (ReadPhone /\ UNCHANGED parserVars)
    \/ (ReadEmail /\ UNCHANGED parserVars)
    \/ (CloseModal /\ UNCHANGED parserVars)
    \/ (Finally /\ UNCHANGED parserVars)

Spec == Init /\ [][Next]_vars

(* the parser alone, on every file within the bounds *)
InitParser == ParserInit /\ BatchInit

NextParser == ReadFile /\ UNCHANGED batchVars

SpecParser == InitParser /\ [][NextParser]_vars

----------------------------------------------------------------------------
(* Properties *)

AllDefault(i) == results[i] = ScrapeResult(numbers[i], NA, NA, NA)
Fields == {"name", "phone", "email"}
Finished == pc = "loop" /\ last.exit \in {"returned", "raised"}

\* C1: a batch that returns a ScrapeResponse has one record per input identifier,
\* in input order (duplicates kept), and total_processed is that count.
C1_OneRecordPerIdentifier ==
    response = "ScrapeResponse" =>
        /\ Len(results) = Len(numbers)
        /\ \A i \in 1..Len(numbers) : results[i].number_searched = numbers[i]
        /\ processed_count = Len(numbers)

C1_Witness ==
    /\ response = "ScrapeResponse"
    /\ Len(numbers) = 2 /\ numbers[1] = numbers[2]
    /\ Len(errors) = 1
    /\ \E i \in 1..2 : results[i].name # NA

\* C2: driver.quit() is invoked once per successful open and never after a failed
\* open, whatever the exit path, and no step of the batch runs after it.
C2_QuitOncePerOpen ==
    /\ quitCalls <= opened
    /\ pc = "done" => quitCalls = opened
    /\ quitCalls > 0 => pc = "done"

C2_Witness ==
    /\ pc = "done" /\ opened = 1 /\ quitCalls = 1
    /\ errors # <<>> /\ deadAt # 0

\* C3: an identifier whose extraction re-raises gets an all-"N/A" record and exactly
\* one error entry naming it, whatever was read before, and every later identifier
\* of the list is still processed.
C3_EscalatedFaultIsPerIdentifier ==
    /\ (Finished /\ last.exit = "raised") =>
          /\ Len(results) = idx /\ AllDefault(idx)
          /\ Len(errors) = last.errsBefore + 1
          /\ errors[Len(errors)].number = numbers[idx]
    /\ (errors # <<>> /\ pc \in {"finally", "done"}) =>
          /\ idx = Len(numbers)
          /\ Len(results) = Len(numbers)

C3_Witness ==
    /\ pc = "done" /\ Len(numbers) = 2 /\ Len(errors) = 2
    /\ last.exit = "raised" /\ last.step = "close_modal"
    /\ seen.name = "found" /\ seen.email = "found"
    /\ AllDefault(2)

\* C4: when the wait for the results link times out, the extractor returns all
\* "N/A" without raising, no error entry is added and no details step is attempted.
C4_NoMatchIsNotAnError ==
    (Finished /\ last.step = "sms_link" /\ last.exc = "Timeout") =>
        /\ last.exit = "returned"
        /\ Len(results) = idx /\ AllDefault(idx)
        /\ Len(errors) = last.errsBefore
        /\ seen = Unread

C4_Witness ==
    /\ Finished /\ last.step = "sms_link" /\ last.exc = "Timeout"
    /\ last.exit = "returned" /\ errors = <<>>

\* C5: when the session cannot be opened the batch returns no ScrapeResponse and no
\* record: one HTTP 500, no identifier extracted, no per-identifier error entry.
C5_OpenFailureIsFatal ==
    opened = 0 =>
        /\ idx = 0 /\ results = <<>> /\ errors = <<>>
        /\ response # "ScrapeResponse"
        /\ (pc \in {"finally", "done"} /\ numbers # <<>>) => fatals = 1
        /\ (pc = "done" /\ numbers # <<>>) => response = "http500"

C5_Witness ==
    /\ pc = "done" /\ numbers # <<>> /\ opened = 0
    /\ response = "http500" /\ quitCalls = 0

\* C6 as stated: once the details panel is visible, every field found keeps its
\* extracted value in the record, every missing field is "N/A", and missing fields
\* alone add no error entry.
C6_AsStated ==
    (Finished /\ last.step \in {"scroll", "name", "phone", "email", "close_modal"}) =>
        /\ \A f \in Fields :
              /\ seen[f] = "missing" => results[idx][f] = NA
              /\ seen[f] = "found" => \E t \in PageTexts(f) : results[idx][f] = Strip(t)
        /\ ((\E f \in Fields : seen[f] = "missing") /\ last.exc \notin {"WebDriver", "Other"})
              => Len(errors) = last.errsBefore

\* C6 amended: the same, for every extraction that does not re-raise a fault after
\* the panel is visible; a missing field does not stop the lookup of the next one.
C6_FieldsReadIndependently ==
    (Finished /\ last.exit = "returned"
       /\ last.step \in {"scroll", "name", "phone", "email", "close_modal"}) =>
        /\ \A f \in Fields :
              /\ seen[f] = "missing" => results[idx][f] = NA
              /\ seen[f] = "found" => \E t \in PageTexts(f) : results[idx][f] = Strip(t)
        /\ seen.name = "missing" => seen.phone # "unread"
        /\ seen.phone = "missing" => seen.email # "unread"
        /\ Len(errors) = last.errsBefore

C6_Witness ==
    /\ Finished /\ last.exit = "returned"
    /\ seen = [name |-> "found", phone |-> "missing", email |-> "found"]
    /\ results[idx].name = <<"n">> /\ results[idx].phone = NA /\ results[idx].email = <<"e">>
    /\ errors = <<>>

\* what the claim says one raw line yields
C7_Yield(line) ==
    LET t == Strip(line) IN
    IF t = <<>> THEN <<>>
    ELSE IF Len(t) >= 10 /\ t[1] = "2" /\ t[2] = "3" /\ t[3] = "4"
         THEN <<[i \in 1..(Len(t) - 3) |-> t[i + 3]]>>
    ELSE IF \A i \in 1..Len(t) : t[i] \in Digits THEN <<t>>
    ELSE <<>>

RECURSIVE C7_Concat(_)
C7_Concat(lines) ==
    IF lines = <<>> THEN <<>> ELSE C7_Yield(Head(lines)) \o C7_Concat(Tail(lines))

\* C7: the list returned is, in input order and with duplicates, what each line
\* yields: nothing for a blank line, the line without its first 3 characters for a
\* trimmed line of 10 or more characters starting with "234", the line itself for
\* another all-digit trimmed line, nothing (and a note in logs) for any other line.
C7_ParserYield ==
    ppc = "returned" =>
        /\ parsed = C7_Concat(fileLines)
        /\ Len(parsed) + Len(skipped) =
              Cardinality({i \in 1..Len(fileLines) : Strip(fileLines[i]) # <<>>})
        /\ \A k \in 1..Len(skipped) : C7_Yield(skipped[k]) = <<>>

C7_Witness ==
    /\ ppc = "returned" /\ Len(fileLines) = 2
    /\ parsed = <<Fill("7", 7)>>
    /\ Len(skipped) = 1

\* C8 as stated: every fault raised while one identifier is processed, transport or
\* not, adds an error entry for it and leaves its record all "N/A".
C8_EveryFaultRecorded ==
    (Finished /\ last.exc \in {"WebDriver", "Other"}) =>
        /\ Len(errors) = last.errsBefore + 1
        /\ errors[Len(errors)].number = numbers[idx]
        /\ AllDefault(idx)

\* C9 as stated: an escalated fault aborts only its identifier, unless the session
\* is dead: then no later identifier is attempted and the batch ends in one fatal
\* error.
C9_DeadSessionAbortsBatch ==
    /\ (errors # <<>> /\ deadAt = 0 /\ pc \in {"finally", "done"}) => idx = Len(numbers)
    /\ deadAt # 0 =>
          /\ idx = deadAt
          /\ pc = "done" => response = "http500"

\* C10 as stated: every identifier the parser returns is a non-empty string of
\* decimal digits.
C10_OnlyDigits ==
    ppc = "returned" => \A i \in 1..Len(parsed) : IsDigit(parsed[i])

====
